---- MODULE Spec2Model ----
(***************************************************************************)
(* Staff service: the TCP framing/dispatch layer of src/src/app.ts and the *)
(* booking workflow of src/src/repositories/staff.repository.ts.           *)
(*                                                                         *)
(* A byte of the stream is a record [v, p]: v is the byte, p its position  *)
(* in the stream the peer sent (a history tag, so that a frame taken out   *)
(* of the buffer can be told from a later frame with the same text).       *)
(* A JSON value is one byte wide here: "n" is the text null, "v" a request *)
(* of a known type that fails id validation, "q" a valid request that      *)
(* reaches the store; two values in one frame are no JSON text.            *)
(***************************************************************************)
EXTENDS Integers, Sequences, FiniteSets, TLC

VARIABLES
    buffer,         \* app.ts:127  residual buffer of the connection
    handlers,       \* 'data' handler invocations suspended at app.ts:137
    written,        \* envelopes written to the socket, in order
    destroyed,      \* socket.destroyed
    totalRequests,  \* ConnectionManager.metrics.totalRequests
    totalErrors,    \* ConnectionManager.metrics.totalErrors
    received,       \* history: every byte delivered by a 'data' event
    trace,          \* history: processMessage starts and socket writes
    bookings,           \* table Booking: id -> [status, serviceRequestId]
    serviceRequests,    \* table ServiceRequest: id -> [status, preferredDate]
    workLogs,           \* table WorkLog, committed rows in insertion order
    inspectionReports,  \* table InspectionReport, committed rows
    calls,              \* the repository calls in progress, one per slot
    clock,              \* wall clock, in hours
    last,               \* the call that returned last, with its result
    nCalls,             \* history: calls begun so far
    applied,            \* history: the committed writes, by call
    sockets,            \* the sockets of the 'connection' events, by arrival
    connections,        \* ConnectionManager.connections
    activeConnections,  \* ConnectionManager.metrics.activeConnections
    totalConnections,   \* ConnectionManager.metrics.totalConnections
    isShuttingDown,     \* TCPMicroservice.isShuttingDown
    request,            \* a decoded payload handed to handleTCPRequest
    reply               \* how handleTCPRequest dealt with it

connVars == <<buffer, handlers, written, destroyed, totalRequests, totalErrors,
              received, trace>>

storeVars == <<bookings, serviceRequests, workLogs, inspectionReports, calls,
               last, clock, nCalls, applied>>

mgrVars == <<sockets, connections, activeConnections, totalConnections,
             isShuttingDown>>

rpcVars == <<request, reply>>

vars == <<connVars, storeVars, mgrVars, rpcVars>>

\* ---------------------------------------------------------------- bounds
MaxBytes == 6
MaxChunk == 2
MaxInFlight == 2

\* ------------------------------------------------------------- constants
\* CONFIG.MAX_PAYLOAD_SIZE, 1048576 bytes by default, scaled to the frames of
\* the model: a frame of more than two bytes is too large
MAX_PAYLOAD_SIZE == 2

ByteVals == {"NL", "SP", "n", "v", "q"}

Chunks == UNION {[1..k -> ByteVals] : k \in 1..MaxChunk}

\* ---------------------------------------------------------------- framer
\* Buffer.indexOf('\n'), 1-based; 0 stands for the source's -1
indexOfNewline(s) ==
    IF \E i \in 1..Len(s) : s[i].v = "NL"
    THEN CHOOSE i \in 1..Len(s) :
            s[i].v = "NL" /\ \A j \in 1..(i - 1) : s[j].v # "NL"
    ELSE 0

RECURSIVE trimStart(_)
trimStart(s) ==
    IF s # <<>> /\ Head(s).v = "SP" THEN trimStart(Tail(s)) ELSE s

RECURSIVE trimEnd(_)
trimEnd(s) ==
    IF s # <<>> /\ s[Len(s)].v = "SP"
    THEN trimEnd(SubSeq(s, 1, Len(s) - 1))
    ELSE s

\* String.prototype.trim
trim(s) == trimEnd(trimStart(s))

RECURSIVE extractLoop(_, _)
extractLoop(remaining, messages) ==
    LET newlineIndex == indexOfNewline(remaining) IN
    IF newlineIndex = 0
    THEN [complete |-> messages, remaining |-> remaining]
    ELSE LET messageStr == trim(SubSeq(remaining, 1, newlineIndex - 1))
             rest == SubSeq(remaining, newlineIndex + 1, Len(remaining))
         IN extractLoop(rest,
                        IF messageStr # <<>>
                        THEN Append(messages, messageStr)
                        ELSE messages)

\* variant: the bytes after the last newline are dropped
extractMessagesNoResidual(buf) ==
    [complete |-> extractLoop(buf, <<>>).complete, remaining |-> <<>>]

extractMessages(buf) == extractLoop(buf, <<>>)

\* ------------------------------------------------------------ envelopes
Thrown(name, message, statusCode, code) ==
    [name |-> name, message |-> message, statusCode |-> statusCode, code |-> code]

AppError(error, code, statusCode) == Thrown("AppError", error, statusCode, code)

\* handlers/throwRpcAppError.ts: the AppError as an RpcException
throwRpcAppError(err) ==
    Thrown("RpcException", err.message, err.statusCode, err.code)

ErrorResponse(statusCode, error) ==
    [success |-> FALSE, statusCode |-> statusCode, error |-> error]

SuccessResponse ==
    [success |-> TRUE, statusCode |-> 200, error |-> "SUCCESS"]

\* 0 and "" are the falsy values of `x || default`
handleSocketError(error) ==
    IF error.name = "AppError"
    THEN ErrorResponse(IF error.statusCode # 0 THEN error.statusCode ELSE 500,
                       IF error.message # "" THEN error.message ELSE "AppError")
    ELSE IF error.name = "RpcException"
    THEN ErrorResponse(IF error.statusCode # 0 THEN error.statusCode ELSE 400,
                       IF error.code # "" THEN error.code ELSE "Error.Rpc")
    ELSE IF error.name = "SyntaxError"
    THEN ErrorResponse(400, "Error.InvalidJSON")
    ELSE IF error.message = "Payload too large"
    THEN ErrorResponse(413, "Error.PayloadTooLarge")
    ELSE ErrorResponse(500, "Error.Unexpected")

\* ----------------------------------------------------------- dispatcher
\* variant: the size check lets one more byte through
byteLengthLessOne(message) == Len(message) - 1

byteLength(message) == Len(message)

\* JSON.parse: one JSON value, nothing else in the text
JSONparse(message) ==
    IF Len(message) = 1 /\ message[1].v \in {"n", "v", "q"}
    THEN [ok |-> TRUE, payload |-> message[1].v]
    ELSE [ok |-> FALSE, payload |-> "none"]

\* What handleTCPRequest throws before it reaches a store call, or "await"
handleTCPRequestSync(payload) ==
    IF payload = "n"
    THEN [await |-> FALSE,
          error |-> Thrown("TypeError", "Cannot destructure", 0, "")]
    ELSE IF payload = "v"
    THEN [await |-> FALSE,
          error |-> throwRpcAppError(AppError("Error.InvalidStaffId", "Invalid staffId", 400))]
    ELSE [await |-> TRUE, error |-> Thrown("none", "", 0, "")]

Outcomes == {"ok", "business", "unexpected"}

\* What handleTCPRequest settles with once the store call has settled
handleTCPRequestAsync(outcome) ==
    IF outcome = "ok"
    THEN [ok |-> TRUE, error |-> Thrown("none", "", 0, "")]
    ELSE IF outcome = "business"
    THEN [ok |-> FALSE,
          error |-> throwRpcAppError(AppError("Business rule", "Error.BusinessRule", 400))]
    ELSE [ok |-> FALSE,
          error |-> throwRpcAppError(
                        AppError("Error.Unexpected", "An unexpected error occurred", 500))]

\* socket.write, unless the socket is gone
sendResponse(st, message, data) ==
    IF destroyed
    THEN st
    ELSE [st EXCEPT !.written = Append(@, data),
                    !.trace = Append(@, [e |-> "resp", m |-> message])]

\* variant: the catch block leaves the error counter alone
processMessageCatchUncounted(st, message, error) ==
    sendResponse(st, message, handleSocketError(error))

\* the catch block of processMessage
processMessageCatch(st, message, error) ==
    sendResponse([st EXCEPT !.totalErrors = @ + 1], message, handleSocketError(error))

started(st, message) ==
    [st EXCEPT !.trace = Append(@, [e |-> "start", m |-> message])]

\* The loop of the 'data' handler from message h.idx on, up to the next
\* store call (the handler is then suspended) or to its end (the handler
\* then stores its residual buffer).
RECURSIVE runHandler(_, _)
runHandler(st, h) ==
    IF h.idx > Len(h.complete)
    THEN [st EXCEPT !.buffer = h.remaining]
    ELSE LET message == h.complete[h.idx]
             next == [h EXCEPT !.idx = @ + 1]
             s0 == started(st, message)
         IN IF byteLength(message) > MAX_PAYLOAD_SIZE
            THEN runHandler(processMessageCatch(s0, message,
                                Thrown("Error", "Payload too large", 0, "")), next)
            ELSE IF ~JSONparse(message).ok
            THEN runHandler(processMessageCatch(s0, message,
                                Thrown("SyntaxError", "Unexpected token", 0, "")), next)
            ELSE LET s1 == [s0 EXCEPT !.totalRequests = @ + 1]
                     r == handleTCPRequestSync(JSONparse(message).payload)
                 IN IF r.await
                    THEN [s1 EXCEPT !.handlers = Append(@, h)]
                    ELSE runHandler(processMessageCatch(s1, message, r.error), next)

ConnState ==
    [buffer |-> buffer, handlers |-> handlers, written |-> written,
     totalRequests |-> totalRequests, totalErrors |-> totalErrors, trace |-> trace]

SetConn(st) ==
    /\ buffer' = st.buffer
    /\ handlers' = st.handlers
    /\ written' = st.written
    /\ totalRequests' = st.totalRequests
    /\ totalErrors' = st.totalErrors
    /\ trace' = st.trace

RemoveAt(s, k) == SubSeq(s, 1, k - 1) \o SubSeq(s, k + 1, Len(s))

\* variant: a chunk with a frame that fails closes the socket
DataClosesOnError(chunk) ==
    /\ ~destroyed
    /\ Len(received) + Len(chunk) <= MaxBytes
    /\ LET data == [i \in 1..Len(chunk) |->
                        [v |-> chunk[i], p |-> Len(received) + i]]
           buf == buffer \o data
           messages == extractMessages(buf)
           h == [complete |-> messages.complete, idx |-> 1,
                 remaining |-> messages.remaining]
       IN /\ SetConn(runHandler([ConnState EXCEPT !.buffer = buf], h))
          /\ Len(handlers') <= MaxInFlight
          /\ received' = received \o data
    /\ destroyed' = (totalErrors' > totalErrors)
    /\ UNCHANGED <<storeVars, mgrVars, rpcVars>>

\* socket.on('data'): app.ts:129-140
Data(chunk) ==
    /\ ~destroyed
    /\ Len(received) + Len(chunk) <= MaxBytes
    /\ LET data == [i \in 1..Len(chunk) |->
                        [v |-> chunk[i], p |-> Len(received) + i]]
           buf == buffer \o data
           messages == extractMessages(buf)
           h == [complete |-> messages.complete, idx |-> 1,
                 remaining |-> messages.remaining]
       IN /\ SetConn(runHandler([ConnState EXCEPT !.buffer = buf], h))
          /\ Len(handlers') <= MaxInFlight
          /\ received' = received \o data
    /\ UNCHANGED <<destroyed, storeVars, mgrVars, rpcVars>>

\* The store call of the k-th suspended handler settles: the rest of
\* processMessage, then the rest of the handler's loop.
StoreDone(k, outcome) ==
    /\ k \in 1..Len(handlers)
    /\ LET h == handlers[k]
           message == h.complete[h.idx]
           st == [ConnState EXCEPT !.handlers = RemoveAt(@, k)]
           r == handleTCPRequestAsync(outcome)
           s1 == IF r.ok
                 THEN sendResponse(st, message, SuccessResponse)
                 ELSE processMessageCatch(st, message, r.error)
       IN SetConn(runHandler(s1, [h EXCEPT !.idx = @ + 1]))
    /\ UNCHANGED <<destroyed, received, storeVars, mgrVars, rpcVars>>

\* socket.on('timeout'): app.ts:155-158
Timeout ==
    /\ ~destroyed
    /\ destroyed' = TRUE
    /\ UNCHANGED <<buffer, handlers, written, totalRequests, totalErrors,
                   received, trace, storeVars, mgrVars, rpcVars>>


\* ------------------------------------------------------------ the store
\* SQL NULL of a nullable column, and the null of findUnique / findFirst
NULL == 0 - 1

MAX_UPDATE_HOURS == 24
MAX_CHECKOUT_HOURS == 24
MAX_DATE_DIFF_DAYS == 1

MaxTicks == 3
MaxCalls == 2
MaxSlots == 2
MaxSkewHours == 50

Slots == 1..MaxSlots
BookingIds == {1, 2}
StaffIds == {1, 2}

\* The clock moves in steps of 12 hours
Tick ==
    /\ clock < 12 * MaxTicks
    /\ clock' = clock + 12
    /\ UNCHANGED <<connVars, mgrVars, rpcVars, bookings, serviceRequests, workLogs,
                   inspectionReports, calls, last, nCalls, applied>>

\* variant: the two dates in the wrong order
calculateHoursDifferenceSwapped(startDate, endDate) == startDate - endDate

calculateHoursDifference(startDate, endDate) == endDate - startDate

\* variant: the difference in hours, not in days
calculateDaysDifferenceInHours(date1, date2) ==
    LET d == date1 - date2 IN IF d < 0 THEN 0 - d ELSE d

\* Math.abs(Math.floor(x)): \div floors
calculateDaysDifference(date1, date2) ==
    LET d == (date1 - date2) \div 24 IN IF d < 0 THEN 0 - d ELSE d

\* An update payload: `has` names the fields that are present
Dto(has, note, images, estimatedTime) ==
    [has |-> has, note |-> note, images |-> images, estimatedTime |-> estimatedTime]

NoDto == Dto({}, "", <<>>, 0)

UpdateDtos ==
    { NoDto,
      Dto({"note"}, " a", <<>>, 0),
      Dto({"images"}, "", <<"u2">>, 0),
      Dto({"note", "estimatedTime"}, " ", <<>>, 5) }

\* String.prototype.trim on the notes of the model
trimNote(note) ==
    IF note = " " THEN "" ELSE IF note = " a" THEN "a" ELSE note

OkResult == [code |-> "ok", statusCode |-> 200]
NoResult == [code |-> "", statusCode |-> 0]
Failure(code, statusCode) == [code |-> code, statusCode |-> statusCode]
\* an error of the Prisma client, which is no AppError
PrismaError == Failure("PrismaClientKnownRequestError", 0)

\* A call of the repository: op and arguments, where it stands (pc), the
\* locals it keeps across awaits, the writes it has yet to issue (todo) and
\* those its transaction holds uncommitted (pending), and how it ended.
\* k numbers the calls; pre, hoursPassed and status record what it read
\* (status "none": no such booking), at the time of the write it made
\* outside a transaction.
IdleCall ==
    [op |-> "idle", pc |-> "idle", k |-> 0, staffId |-> 0, bookingId |-> 0,
     id |-> 0, data |-> NoDto, srId |-> NULL, preferredDate |-> 0, now |-> NULL,
     todo |-> {}, pending |-> <<>>, result |-> NoResult,
     pre |-> FALSE, hoursPassed |-> 0, at |-> NULL, status |-> ""]

Free(c) == calls[c].pc = "idle"

NewCall(op) == [IdleCall EXCEPT !.op = op, !.k = nCalls + 1]

\* The call has returned: its locals are gone, its result is known
Done(call, result) ==
    [call EXCEPT !.pc = "done", !.result = result, !.todo = {}, !.pending = <<>>,
                 !.data = NoDto, !.srId = NULL, !.preferredDate = 0]

\* Slot c goes on as `call`; a call that has returned leaves its slot
Settle(c, call) ==
    IF call.pc = "done"
    THEN /\ calls' = [calls EXCEPT ![c] = IdleCall]
         /\ last' = call
    ELSE /\ calls' = [calls EXCEPT ![c] = call]
         /\ UNCHANGED last

DB ==
    [bookings |-> bookings, serviceRequests |-> serviceRequests,
     workLogs |-> workLogs, inspectionReports |-> inspectionReports,
     applied |-> applied]

SetDB(db) ==
    /\ bookings' = db.bookings
    /\ serviceRequests' = db.serviceRequests
    /\ workLogs' = db.workLogs
    /\ inspectionReports' = db.inspectionReports
    /\ applied' = db.applied

Write(kind, by, id, row) == [kind |-> kind, by |-> by, id |-> id, row |-> row]

\* variant: every field of the payload is written, supplied or not
updatedReportWhole(r, dto) ==
    [r EXCEPT !.note = dto.note, !.images = dto.images,
              !.estimatedTime = dto.estimatedTime]

\* inspectionReport.update: only the fields of the payload change
updatedReport(r, dto) ==
    [r EXCEPT !.note = IF "note" \in dto.has THEN dto.note ELSE @,
              !.images = IF "images" \in dto.has THEN dto.images ELSE @,
              !.estimatedTime =
                  IF "estimatedTime" \in dto.has THEN dto.estimatedTime ELSE @]

\* One statement on the tables
Apply(db, w) ==
    LET d == [db EXCEPT !.applied = @ \cup {[by |-> w.by, kind |-> w.kind]}] IN
    IF w.kind = "inspectionReport.create"
    THEN [d EXCEPT !.inspectionReports =
             Append(@, [w.row EXCEPT !.id = Len(db.inspectionReports) + 1])]
    ELSE IF w.kind = "inspectionReport.update"
    THEN [d EXCEPT !.inspectionReports[w.id] = updatedReport(@, w.row)]
    ELSE IF w.kind = "workLog.create"
    THEN [d EXCEPT !.workLogs = Append(@, [w.row EXCEPT !.id = Len(db.workLogs) + 1])]
    ELSE IF w.kind = "workLog.update"
    THEN [d EXCEPT !.workLogs[w.id].checkOut = w.row.checkOut]
    ELSE IF w.kind = "serviceRequest.update"
    THEN [d EXCEPT !.serviceRequests[w.id].status = w.row.status]
    ELSE [d EXCEPT !.bookings[w.id].status = w.row.status]

\* variant: a commit that applies the first statement only
ApplyFirst(db, ws) == IF ws = <<>> THEN db ELSE Apply(db, Head(ws))

RECURSIVE ApplyAll(_, _)
ApplyAll(db, ws) ==
    IF ws = <<>> THEN db ELSE ApplyAll(Apply(db, Head(ws)), Tail(ws))

\* A statement on the base client `prisma`: it is committed at once
prismaExecute(db, pending, w) == [db |-> Apply(db, w), pending |-> pending]

\* variant: the statement of a transaction is committed at once
autoCommitExecute(db, pending, w) == [db |-> Apply(db, w), pending |-> pending]

\* variant: the statement of a transaction is lost
txExecuteDropped(db, pending, w) == [db |-> db, pending |-> pending]

\* A statement on the client `tx` of prisma.$transaction: it stays with the
\* transaction until the commit
txExecute(db, pending, w) == [db |-> db, pending |-> Append(pending, w)]

\* The row, or the unique key, a statement locks until its transaction ends
RowKey(w) ==
    IF w.kind = "inspectionReport.create"
    THEN <<"InspectionReport.bookingId", w.row.bookingId>>
    ELSE IF w.kind = "workLog.create" THEN <<"WorkLog.new", w.by>>
    ELSE IF w.kind = "workLog.update" THEN <<"WorkLog", w.id>>
    ELSE IF w.kind = "serviceRequest.update" THEN <<"ServiceRequest", w.id>>
    ELSE IF w.kind = "inspectionReport.update" THEN <<"InspectionReport", w.id>>
    ELSE <<"Booking", w.id>>

LockedByOther(c, w) ==
    \E o \in Slots \ {c} :
        \E i \in 1..Len(calls[o].pending) : RowKey(calls[o].pending[i]) = RowKey(w)

\* variant: a unique index on WorkLog (staffId, bookingId) as well
UniqueViolationWorkLog(db, w) ==
    \/ /\ w.kind = "inspectionReport.create"
       /\ \E i \in 1..Len(db.inspectionReports) :
             db.inspectionReports[i].bookingId = w.row.bookingId
    \/ /\ w.kind = "workLog.create"
       /\ \E i \in 1..Len(db.workLogs) :
             /\ db.workLogs[i].staffId = w.row.staffId
             /\ db.workLogs[i].bookingId = w.row.bookingId

\* variant: no unique index on bookingId
NoUniqueIndex(db, w) == FALSE

\* schema.prisma:420  bookingId Int @unique
UniqueViolation(db, w) ==
    /\ w.kind = "inspectionReport.create"
    /\ \E i \in 1..Len(db.inspectionReports) :
          db.inspectionReports[i].bookingId = w.row.bookingId

\* variant: the error of the transaction is swallowed
WrappedSwallowed(op) == OkResult

\* What the catch block of the operation makes of an error that is no AppError
Wrapped(op) ==
    IF op = "createInspectionReport" THEN Failure("Error.CreateInspectionReportError", 500)
    ELSE IF op = "createWorkLogWithStatusUpdate" THEN Failure("Error.CreateWorkLogError", 500)
    ELSE IF op = "updateInspectionReport" THEN Failure("Error.UpdateInspectionReportError", 500)
    ELSE PrismaError

StoreUnchanged ==
    UNCHANGED <<bookings, serviceRequests, workLogs, inspectionReports, applied>>

\* ------------------------------------------------- transactions, generic
\* One of the statements the callback of prisma.$transaction has issued
\* reaches the database. It waits while another transaction holds its row
\* or unique key; a second row for a bookingId that has a committed report
\* violates the unique index, and the error rolls the transaction back.
txWrite(c) ==
    /\ calls[c].pc = "write"
    /\ \E w \in calls[c].todo :
        /\ ~LockedByOther(c, w)
        /\ IF UniqueViolation(DB, w)
           THEN /\ Settle(c, Done([calls[c] EXCEPT !.pre = TRUE],
                                   Wrapped(calls[c].op)))
                /\ StoreUnchanged
           ELSE LET r == txExecute(DB, calls[c].pending, w) IN
                /\ SetDB(r.db)
                /\ Settle(c, [calls[c] EXCEPT !.pending = r.pending,
                                              !.todo = @ \ {w}])
    /\ UNCHANGED <<connVars, mgrVars, rpcVars, clock, nCalls>>

\* The callback has returned: the transaction commits what it holds
txCommit(c) ==
    /\ calls[c].pc = "write"
    /\ calls[c].todo = {}
    /\ SetDB(ApplyAll(DB, calls[c].pending))
    /\ Settle(c, Done(calls[c], OkResult))
    /\ UNCHANGED <<connVars, mgrVars, rpcVars, clock, nCalls>>

\* A statement of the transaction fails (a deadlock, a foreign key, the
\* time limit of the interactive transaction): the callback throws and the
\* transaction is rolled back
txFails(c) ==
    /\ calls[c].pc = "write"
    /\ Settle(c, Done(calls[c], Wrapped(calls[c].op)))
    /\ StoreUnchanged
    /\ UNCHANGED <<connVars, mgrVars, rpcVars, clock, nCalls>>

\* A call begins, in the first slot that is free
Begin(c, call) ==
    /\ Free(c)
    /\ \A o \in Slots : o < c => ~Free(o)
    /\ nCalls < MaxCalls
    /\ Settle(c, call)
    /\ nCalls' = nCalls + 1
    /\ StoreUnchanged
    /\ UNCHANGED <<connVars, mgrVars, rpcVars, clock>>

\* ---------------------------------------------------- inspection reports
hasReport(bookingId) ==
    \E i \in 1..Len(inspectionReports) : inspectionReports[i].bookingId = bookingId

\* StaffService.createInspectionReport, then the repository's transaction
\* up to the result of findUnique
createInspectionReport(c, bookingId, staffId) ==
    LET call == [NewCall("createInspectionReport") EXCEPT
                    !.staffId = staffId, !.bookingId = bookingId]
        row == [id |-> 0, bookingId |-> bookingId, staffId |-> staffId, note |-> "",
                images |-> <<"u1">>, estimatedTime |-> 0, createdAt |-> clock]
    IN Begin(c,
         IF staffId = 0 \/ bookingId = 0
         THEN Done(call, Failure("Error.MissingRequiredFields", 400))
         ELSE IF hasReport(bookingId)
         THEN Done([call EXCEPT !.pre = TRUE],
                   Failure("Error.InspectionReportExists", 400))
         ELSE [call EXCEPT !.pc = "write",
                           !.todo = {Write("inspectionReport.create", call.k, 0, row)}])

\* StaffService.updateInspectionReport: Boolean(note?.trim() || ...)
hasValidUpdates(dto) ==
    \/ "note" \in dto.has /\ trimNote(dto.note) # ""
    \/ "images" \in dto.has /\ Len(dto.images) > 0
    \/ "estimatedTime" \in dto.has /\ dto.estimatedTime # 0

\* StaffService.updateInspectionReport: the fields it hands to the repository
updateData(dto) ==
    Dto({f \in dto.has :
            \/ f = "note" /\ trimNote(dto.note) # ""
            \/ f = "images" /\ Len(dto.images) > 0
            \/ f = "estimatedTime" /\ dto.estimatedTime # 0},
        trimNote(dto.note), dto.images, dto.estimatedTime)

\* StaffService.updateInspectionReport, then the repository up to the age
\* check that follows findUnique
updateInspectionReport(c, id, dto) ==
    LET call == [NewCall("updateInspectionReport") EXCEPT
                    !.id = id, !.data = updateData(dto)]
        found == id \in 1..Len(inspectionReports)
        hoursPassed == calculateHoursDifference(inspectionReports[id].createdAt, clock)
        \* a call that is refused keeps, as history, the fields it was given
        Refused(as, result) == [Done(as, result) EXCEPT !.data = call.data]
    IN Begin(c,
         IF ~hasValidUpdates(dto)
         THEN Refused(call, Failure("Error.NoValidUpdateData", 400))
         ELSE IF ~found
         THEN Refused(call, Failure("NotFound", 404))
         ELSE IF hoursPassed > MAX_UPDATE_HOURS
         THEN Refused([call EXCEPT !.pre = TRUE, !.now = clock,
                                   !.hoursPassed = hoursPassed],
                      Failure("Error.ReportUpdateTooLate", 400))
         ELSE [call EXCEPT !.pc = "update", !.pre = TRUE, !.now = clock,
                           !.hoursPassed = hoursPassed])

\* prisma.inspectionReport.update of updateInspectionReport
updateInspectionReportWrite(c) ==
    /\ calls[c].pc = "update"
    /\ LET w == Write("inspectionReport.update", calls[c].k, calls[c].id, calls[c].data)
           r == prismaExecute(DB, <<>>, w)
       IN SetDB(r.db)
    /\ Settle(c, Done([calls[c] EXCEPT !.at = clock], OkResult))
    /\ UNCHANGED <<connVars, mgrVars, rpcVars, clock, nCalls>>

\* ------------------------------------------------------------- work logs
logsOf(bookingId) == {i \in 1..Len(workLogs) : workLogs[i].bookingId = bookingId}

\* history: the staff member has a committed work log for the booking and
\* no work log of the booking has been checked out
checkedInNotOut(staffId, bookingId) ==
    /\ \E i \in logsOf(bookingId) : workLogs[i].staffId = staffId
    /\ \A i \in logsOf(bookingId) : workLogs[i].checkOut = NULL

\* variant: the look-up of an earlier check-in finds nothing
existingLogSkipped(bookingId, staffId) == FALSE

\* tx.workLog.findFirst({ where: { bookingId, staffId } }) found a row
existingLog(bookingId, staffId) ==
    \E i \in logsOf(bookingId) : workLogs[i].staffId = staffId

\* variant: only a completed booking is refused
invalidStatusCompletedOnly(status) == status = "COMPLETED"

\* [BookingStatus.COMPLETED, BookingStatus.CANCELLED].includes(booking.status)
invalidStatusForCheckIn(status) == status \in {"COMPLETED", "CANCELLED"}

\* The transaction of createWorkLogWithStatusUpdate up to the status check
\* that follows booking.findUnique
createWorkLogWithStatusUpdate(c, staffId, bookingId) ==
    LET call == [NewCall("createWorkLogWithStatusUpdate") EXCEPT
                    !.staffId = staffId, !.bookingId = bookingId,
                    !.pre = checkedInNotOut(staffId, bookingId),
                    !.status = IF bookingId \in DOMAIN bookings
                               THEN bookings[bookingId].status ELSE "none"]
        found == bookingId \in DOMAIN bookings
        booking == bookings[bookingId]
        srId == booking.serviceRequestId
    IN Begin(c,
         IF ~found
         THEN Done(call, Failure("Error.BookingNotFound", 404))
         ELSE IF invalidStatusForCheckIn(booking.status)
         THEN Done(call, Failure("Error.InvalidBookingStatusForCheckIn", 400))
         ELSE [call EXCEPT
                 !.pc = "findLog",
                 !.srId = srId,
                 !.preferredDate =
                     IF srId # NULL THEN serviceRequests[srId].preferredDate ELSE 0])

\* variant: a booking without a service request passes
missingServiceRequestIdIgnored(srId) == FALSE

\* if (!booking.ServiceRequest?.id)
missingServiceRequestId(srId) == srId = NULL

\* ... from workLog.findFirst to the two writes it issues
createWorkLogFindLog(c) ==
    /\ calls[c].pc = "findLog"
    /\ LET call == calls[c]
           now == clock
           create == Write("workLog.create", call.k, 0,
                           [id |-> 0, staffId |-> call.staffId,
                            bookingId |-> call.bookingId, checkIn |-> now,
                            checkOut |-> NULL, by |-> call.k])
           update == Write("serviceRequest.update", call.k, call.srId,
                           [status |-> "IN_PROGRESS"])
       IN Settle(c,
            IF existingLog(call.bookingId, call.staffId)
            THEN Done(call, Failure("Error.AlreadyCheckedIn", 400))
            ELSE IF call.srId # NULL
                    /\ calculateDaysDifference(now, call.preferredDate)
                            > MAX_DATE_DIFF_DAYS
            THEN Done(call, Failure("Error.DateMismatchPreferredDate", 400))
            ELSE IF missingServiceRequestId(call.srId)
            THEN Done(call, Failure("Error.MissingServiceRequestId", 500))
            ELSE [call EXCEPT !.pc = "write", !.now = now,
                              !.todo = {create, update}])
    /\ StoreUnchanged
    /\ UNCHANGED <<connVars, mgrVars, rpcVars, clock, nCalls>>

\* variant: the check-out time tested as a number, so that time 0 is falsy
hasCheckOutNumber(log) == log.checkOut # NULL /\ log.checkOut # 0

\* if (log.checkOut): a Date is truthy, null is not
hasCheckOut(log) == log.checkOut # NULL

\* variant: a check-out at the limit is refused too
checkOutExpiredAtLimit(hoursPassed) == hoursPassed >= MAX_CHECKOUT_HOURS

\* variant: no limit on the age of the check-in
checkOutNeverExpired(hoursPassed) == FALSE

\* if (hoursPassed > MAX_CHECKOUT_HOURS)
checkOutExpired(hoursPassed) == hoursPassed > MAX_CHECKOUT_HOURS

\* variant: the check-out of a cancelled booking is refused
checkOutFoundUnlessCancelled(call, i) ==
    LET log == workLogs[i]
        now == clock
        hoursPassed == calculateHoursDifference(log.checkIn, now)
        seen == [call EXCEPT !.id = i, !.pre = log.checkOut # NULL, !.now = now]
    IN IF hasCheckOut(log)
       THEN Done(seen, Failure("Error.AlreadyCheckedOut", 400))
       ELSE IF bookings[call.bookingId].status = "CANCELLED"
       THEN Done(seen, Failure("Error.InvalidBookingStatus", 400))
       ELSE IF checkOutExpired(hoursPassed)
       THEN Done([seen EXCEPT !.hoursPassed = hoursPassed],
                 Failure("Error.CheckOutTooLate", 400))
       ELSE [seen EXCEPT
               !.pc = "write", !.hoursPassed = hoursPassed,
               !.todo = {Write("workLog.update", call.k, i, [checkOut |-> now]),
                         Write("booking.update", call.k, call.bookingId,
                               [status |-> "COMPLETED"])}]

\* What checkOutWorkLogByBookingId does with the row findFirst returned
checkOutFound(call, i) ==
    LET log == workLogs[i]
        now == clock
        hoursPassed == calculateHoursDifference(log.checkIn, now)
        seen == [call EXCEPT !.id = i, !.pre = log.checkOut # NULL, !.now = now]
    IN IF hasCheckOut(log)
       THEN Done(seen, Failure("Error.AlreadyCheckedOut", 400))
       ELSE IF log.checkIn = NULL
       THEN Done(seen, Failure("Error.MissingCheckIn", 400))
       ELSE IF checkOutExpired(hoursPassed)
       THEN Done([seen EXCEPT !.hoursPassed = hoursPassed],
                 Failure("Error.CheckOutTooLate", 400))
       ELSE [seen EXCEPT
               !.pc = "write", !.hoursPassed = hoursPassed,
               !.todo = {Write("workLog.update", call.k, i, [checkOut |-> now]),
                         Write("booking.update", call.k, call.bookingId,
                               [status |-> "COMPLETED"])}]

\* The transaction of checkOutWorkLogByBookingId up to its two writes.
\* findFirst has no orderBy: it returns any one of the booking's work logs.
\* The call never reads the booking: `status` is history, the status the
\* booking had when the call began.
checkOutWorkLogByBookingId(c, bookingId) ==
    LET call == [NewCall("checkOutWorkLogByBookingId") EXCEPT
                    !.bookingId = bookingId,
                    !.status = IF bookingId \in DOMAIN bookings
                               THEN bookings[bookingId].status ELSE "none"]
    IN IF logsOf(bookingId) = {}
       THEN Begin(c, Done(call, Failure("NotFound", 404)))
       ELSE \E i \in logsOf(bookingId) : Begin(c, checkOutFound(call, i))

\* --------------------------------------------------- admission control
\* CONFIG.MAX_CONNECTIONS, 100 by default, scaled to the sockets of the model
MAX_CONNECTIONS == 2

MaxSockets == 4

SocketIds == 1..MaxSockets

\* A socket: where it stands ("new": its 'connection' event is yet to come),
\* whether addConnection and the listeners of handleConnection were set up
\* for it, and as history the activeConnections its 'connection' event
\* found, the chunks its peer sent and those its 'data' listener handled
NewSocket ==
    [state |-> "new", added |-> FALSE, found |-> NULL, sent |-> 0, handled |-> 0]

\* variant: one connection more than the maximum is let in
canAcceptConnectionAtLimit == activeConnections <= MAX_CONNECTIONS

canAcceptConnection == activeConnections < MAX_CONNECTIONS

\* server.on('connection'): handleConnection, with addConnection
Connect(s) ==
    /\ sockets[s].state = "new"
    /\ s > 1 => sockets[s - 1].state # "new"
    /\ IF isShuttingDown \/ ~canAcceptConnection
       THEN /\ sockets' = [sockets EXCEPT ![s].state = "destroyed",
                                          ![s].found = activeConnections]
            /\ UNCHANGED <<connections, activeConnections, totalConnections>>
       ELSE /\ sockets' = [sockets EXCEPT ![s].state = "open", ![s].added = TRUE,
                                          ![s].found = activeConnections]
            /\ connections' = connections \cup {s}
            /\ activeConnections' = activeConnections + 1
            /\ totalConnections' = totalConnections + 1
    /\ UNCHANGED <<isShuttingDown, connVars, storeVars, rpcVars>>

\* The peer of socket s sends its one chunk: a 'data' event if the socket is open
\* and has the listener of handleConnection, nothing otherwise
SocketData(s) ==
    /\ sockets[s].state \in {"open", "destroyed"}
    /\ sockets[s].sent = 0
    /\ sockets' = [sockets EXCEPT
                      ![s].sent = @ + 1,
                      ![s].handled = IF sockets[s].state = "open" /\ sockets[s].added
                                     THEN @ + 1 ELSE @]
    /\ UNCHANGED <<connections, activeConnections, totalConnections,
                   isShuttingDown, connVars, storeVars, rpcVars>>

\* socket.on('timeout') of an open socket: socket.destroy()
SocketTimeout(s) ==
    /\ sockets[s].state = "open"
    /\ sockets' = [sockets EXCEPT ![s].state = "destroyed"]
    /\ UNCHANGED <<connections, activeConnections, totalConnections,
                   isShuttingDown, connVars, storeVars, rpcVars>>

\* variant: the 'close' event of any socket decrements the count
SocketCloseUntracked(s) ==
    /\ sockets[s].state = "destroyed"
    /\ sockets' = [sockets EXCEPT ![s].state = "closed"]
    /\ connections' = connections \ {s}
    /\ activeConnections' = activeConnections - 1
    /\ UNCHANGED <<totalConnections, isShuttingDown, connVars, storeVars, rpcVars>>

\* The 'close' event of a destroyed socket: the listener of addConnection,
\* where there is one
SocketClose(s) ==
    /\ sockets[s].state = "destroyed"
    /\ sockets' = [sockets EXCEPT ![s].state = "closed"]
    /\ IF sockets[s].added
       THEN /\ connections' = connections \ {s}
            /\ activeConnections' = activeConnections - 1
       ELSE UNCHANGED <<connections, activeConnections>>
    /\ UNCHANGED <<totalConnections, isShuttingDown, connVars, storeVars, rpcVars>>

\* variant: a socket that has handled a chunk is left to finish
closeAllConnectionsDraining ==
    [s \in SocketIds |->
        IF s \in connections /\ sockets[s].state = "open" /\ sockets[s].handled = 0
        THEN [sockets[s] EXCEPT !.state = "destroyed"]
        ELSE sockets[s]]

\* The sockets after closeAllConnections: socket.destroy() for every tracked
\* socket that is not destroyed
closeAllConnections ==
    [s \in SocketIds |->
        IF s \in connections /\ sockets[s].state = "open"
        THEN [sockets[s] EXCEPT !.state = "destroyed"]
        ELSE sockets[s]]

\* SIGINT, SIGTERM, uncaughtException or unhandledRejection: shutdown().
\* process.exit(0) follows in the same turn; the events the model lets
\* arrive after this step are those the guard of handleConnection is for.
Shutdown ==
    /\ ~isShuttingDown
    /\ isShuttingDown' = TRUE
    /\ sockets' = closeAllConnections
    /\ connections' = {}
    /\ UNCHANGED <<activeConnections, totalConnections, connVars, storeVars, rpcVars>>

\* ------------------------------------------------ the dispatcher's checks
\* JSON values of a field: a number is held in tenths (15 is 1.5), Str is
\* the string "abc", Undef a field that is absent
Undef == [t |-> "undefined", v |-> 0]
Str == [t |-> "string", v |-> 0]
Num(tenths) == [t |-> "number", v |-> tenths]

IdValues == {Undef, Str, Num(0), Num(0 - 10), Num(15), Num(10)}

\* The values of data.dataInspection: absent, null, the string "abc", or an
\* object with the fields of a Dto
Inspection(t, dto) == [t |-> t, dto |-> dto]

InspectionValues ==
    { Inspection("undefined", NoDto), Inspection("null", NoDto),
      Inspection("string", NoDto), Inspection("object", NoDto),
      Inspection("object", Dto({"note"}, " ", <<>>, 0)),
      Inspection("object", Dto({"images"}, "", <<"u2">>, 0)) }

Registry ==
    { "STAFF_GET_BOOKINGS", "STAFF_GET_BOOKING_DETAIL",
      "STAFF_CREATE_INSPECTION_REPORT", "STAFF_GET_REVIEWS",
      "STAFF_GET_INSPECTION_REPORTS", "STAFF_GET_INSPECTION_DETAIL",
      "UPDATE_INSPECTION_REPORT", "STAFF_GET_WORK_LOGS", "STAFF_GET_PERFORMANCE",
      "STAFF_GET_REVIEW_SUMMARY", "STAFF_CREATE_WORK_LOG", "STAFF_CHECK_OUT",
      "STAFF_GET_BOOKINGS_BY_DATE", "STAFF_GET_MONTHLY_STATS" }

\* A payload as JSON.parse returns it: the text null, or an object with its
\* type ("" when it has none) and its data, absent or an object with these
\* fields. A date is absent or "2025-01-15"; the year is 2025.
Payload(json, type, data, staffId, bookingId, inspectionId, dataInspection, date, month) ==
    [json |-> json, type |-> type, data |-> data, staffId |-> staffId,
     bookingId |-> bookingId, inspectionId |-> inspectionId,
     dataInspection |-> dataInspection, date |-> date, month |-> month]

NoRequest ==
    Payload("none", "", "undefined", Undef, Undef, Undef,
            Inspection("undefined", NoDto), "undefined", Undef)

Requests ==
    {Payload("null", "", "undefined", Undef, Undef, Undef,
             Inspection("undefined", NoDto), "undefined", Undef)}
    \cup {Payload("object", type, "undefined", Undef, Undef, Undef,
                  Inspection("undefined", NoDto), "undefined", Undef) :
             type \in Registry \cup {"", "STAFF_DELETE_BOOKING"}}
    \cup {Payload("object", type, "object", staffId, bookingId, inspectionId,
                  dataInspection, date, month) :
             type \in Registry \cup {"", "STAFF_DELETE_BOOKING"},
             staffId \in IdValues, bookingId \in IdValues, inspectionId \in IdValues,
             dataInspection \in InspectionValues,
             date \in {"undefined", "2025-01-15"}, month \in {Undef, Num(10)}}

NoThrow == Thrown("none", "", 0, "")

TypeError == Thrown("TypeError", "Cannot destructure", 0, "")

\* How a request fared: what was thrown, the StaffService method that was
\* called if any, and whether that method went on to the repository
Fared(thrown, service, store) ==
    [done |-> TRUE, thrown |-> thrown, service |-> service, store |-> store]

NoReply == [done |-> FALSE, thrown |-> NoThrow, service |-> "none", store |-> FALSE]

truthy(value) == value.t = "string" \/ (value.t = "number" /\ value.v # 0)

capitalize(field) ==
    CASE field = "staffId" -> "StaffId"
      [] field = "bookingId" -> "BookingId"
      [] field = "inspectionId" -> "InspectionId"

\* variant: the value must be a whole number as well
validateIdInteger(value, field) ==
    IF ~truthy(value) \/ value.t # "number" \/ value.v <= 0 \/ value.v % 10 # 0
    THEN AppError("Error.Invalid" \o capitalize(field), "Invalid " \o field, 400)
    ELSE NoThrow

\* What validateId throws; a NaN is no JSON value
validateId(value, field) ==
    IF ~truthy(value) \/ value.t # "number" \/ value.v <= 0
    THEN AppError("Error.Invalid" \o capitalize(field), "Invalid " \o field, 400)
    ELSE NoThrow

\* Object.keys(data) of a data object
keys(req) ==
    {f \in {"staffId", "bookingId", "inspectionId", "month"} : req[f] # Undef}
    \cup (IF req.dataInspection.t # "undefined" THEN {"dataInspection"} ELSE {})
    \cup (IF req.date # "undefined" THEN {"date"} ELSE {})

\* What validateUpdateData(data) throws
validateUpdateData(req) ==
    IF req.data = "undefined"
    THEN AppError("Error.InvalidUpdateData", "Invalid update data", 400)
    ELSE IF keys(req) = {}
    THEN AppError("Error.EmptyUpdateData", "Update data cannot be empty", 400)
    ELSE NoThrow

\* The first of the checks that throws ends the case
RECURSIVE Checked(_, _)
Checked(checks, then) ==
    IF checks = <<>> THEN then
    ELSE IF Head(checks) # NoThrow THEN Fared(Head(checks), "none", FALSE)
    ELSE Checked(Tail(checks), then)

\* A method of StaffService: its own guard, then the repository
Service(name, thrown) ==
    IF thrown # NoThrow THEN Fared(thrown, name, FALSE) ELSE Fared(NoThrow, name, TRUE)

\* `!id || id <= 0` of the StaffService methods
serviceIdGuard(value, error, code) ==
    IF ~truthy(value) \/ value.v <= 0 THEN AppError(error, code, 400) ELSE NoThrow

\* StaffService.updateInspectionReport up to the repository call:
\* destructuring undefined or null throws a TypeError
serviceUpdateInspectionReport(dto) ==
    IF dto.t \in {"undefined", "null"}
    THEN TypeError
    ELSE IF ~hasValidUpdates(dto.dto)
    THEN AppError("No valid update data provided", "Error.NoValidUpdateData", 400)
    ELSE NoThrow

\* The switch of handleTCPRequest, each case up to the repository call
switch(req) ==
    LET staffId == validateId(req.staffId, "staffId")
        bookingId == validateId(req.bookingId, "bookingId")
        inspectionId == validateId(req.inspectionId, "inspectionId")
        type == req.type
    IN
    IF type \notin Registry
    THEN Fared(AppError("Error.UnknownRequestType", "Unknown request type", 400),
               "none", FALSE)
    ELSE IF req.data = "undefined" /\ type # "STAFF_CREATE_INSPECTION_REPORT"
    THEN Fared(TypeError, "none", FALSE)
    ELSE CASE type = "STAFF_GET_BOOKINGS" ->
              Checked(<<staffId>>, Service("getBookingsList", NoThrow))
           [] type = "STAFF_GET_BOOKING_DETAIL" ->
              \* called with bookingId alone: its staffId is undefined
              Checked(<<bookingId>>,
                      Service("getBookingDetail",
                              AppError("Missing required parameters",
                                       "Error.MissingParameters", 400)))
           [] type = "STAFF_CREATE_INSPECTION_REPORT" ->
              Checked(<<validateUpdateData(req)>>,
                      Service("createInspectionReport",
                              IF ~truthy(req.staffId) \/ ~truthy(req.bookingId)
                              THEN AppError("Missing required fields",
                                            "Error.MissingRequiredFields", 400)
                              ELSE NoThrow))
           [] type = "STAFF_GET_REVIEWS" ->
              Checked(<<staffId>>, Service("getReviews", NoThrow))
           [] type = "STAFF_GET_INSPECTION_REPORTS" ->
              Checked(<<staffId>>, Service("getInspectionReportsByStaff", NoThrow))
           [] type = "STAFF_GET_INSPECTION_DETAIL" ->
              Checked(<<inspectionId>>,
                      Service("getInspectionReportById",
                              serviceIdGuard(req.inspectionId, "Invalid inspection ID",
                                             "Error.InvalidInspectionId")))
           [] type = "UPDATE_INSPECTION_REPORT" ->
              Checked(<<inspectionId, validateUpdateData(req)>>,
                      Service("updateInspectionReport",
                              serviceUpdateInspectionReport(req.dataInspection)))
           [] type = "STAFF_GET_WORK_LOGS" ->
              Checked(<<staffId>>, Service("getRecentWorkLogs", NoThrow))
           [] type = "STAFF_GET_PERFORMANCE" ->
              Checked(<<staffId>>,
                      Service("getStaffPerformanceById",
                              serviceIdGuard(req.staffId, "Invalid staff ID",
                                             "Error.InvalidStaffId")))
           [] type = "STAFF_GET_REVIEW_SUMMARY" ->
              Checked(<<staffId>>, Service("getReviewSummary", NoThrow))
           [] type = "STAFF_CREATE_WORK_LOG" ->
              Checked(<<staffId, bookingId>>,
                      Service("createWorkLogWithStatusUpdate",
                              IF ~truthy(req.staffId) \/ ~truthy(req.bookingId)
                              THEN AppError("Missing required parameters",
                                            "Error.MissingParameters", 400)
                              ELSE NoThrow))
           [] type = "STAFF_CHECK_OUT" ->
              Checked(<<bookingId>>,
                      Service("checkOutWorkLog",
                              serviceIdGuard(req.bookingId, "Invalid booking ID",
                                             "Error.InvalidBookingId")))
           [] type = "STAFF_GET_BOOKINGS_BY_DATE" ->
              Checked(<<staffId,
                        IF req.date = "undefined"
                        THEN AppError("Invalid date format", "InvalidDate", 400)
                        ELSE NoThrow>>,
                      Service("getBookingsByDate", NoThrow))
           [] type = "STAFF_GET_MONTHLY_STATS" ->
              Checked(<<staffId,
                        IF req.month.t # "number" \/ req.month.v <= 0
                        THEN AppError("Invalid month/year", "InvalidMonthYear", 400)
                        ELSE NoThrow>>,
                      Service("getMonthlyStats", NoThrow))

\* handleTCPRequest up to the repository call. The destructuring of the
\* payload stands before the try: the TypeError of a null payload leaves
\* the function as it is. In the catch an AppError goes to throwRpcAppError
\* and anything else is replaced by the AppError Error.Unexpected.
handleTCPRequest(payload) ==
    IF payload.json = "null"
    THEN Fared(TypeError, "none", FALSE)
    ELSE LET r == switch(payload)
         IN IF r.thrown.name \in {"none", "AppError"}
            THEN r
            ELSE [r EXCEPT !.thrown = AppError("Error.Unexpected",
                                               "An unexpected error occurred", 500)]

\* processMessage hands the parsed payload to handleTCPRequest
Dispatch ==
    /\ ~reply.done
    /\ request # NoRequest
    /\ reply' = handleTCPRequest(request)
    /\ UNCHANGED <<request, connVars, storeVars, mgrVars>>

\* ------------------------------------------------------- specifications
ConnInit ==
    /\ buffer = <<>>
    /\ handlers = <<>>
    /\ written = <<>>
    /\ destroyed = FALSE
    /\ totalRequests = 0
    /\ totalErrors = 0
    /\ received = <<>>
    /\ trace = <<>>
    /\ sockets = [s \in SocketIds |-> NewSocket]
    /\ connections = {}
    /\ activeConnections = 0
    /\ totalConnections = 0
    /\ isShuttingDown = FALSE

\* No payload is at the dispatcher
NoDispatch ==
    /\ request = NoRequest
    /\ reply = NoReply

\* Every run starts with no call in progress
StoreInit ==
    /\ calls = [c \in Slots |-> IdleCall]
    /\ last = IdleCall
    /\ clock = 0
    /\ nCalls = 0
    /\ applied = {}

\* Both bookings confirmed, each with its service request; no report and no
\* work log has been written
FixedTables ==
    /\ bookings = [b \in BookingIds |-> [status |-> "CONFIRMED", serviceRequestId |-> b]]
    /\ serviceRequests = [r \in BookingIds |-> [status |-> "PENDING", preferredDate |-> 0]]
    /\ workLogs = <<>>
    /\ inspectionReports = <<>>

\* The tables a work-log run starts from: booking 1, pending or cancelled,
\* with its service request (or without one), and either no work log or the
\* open work log of staff 1
WorkSetups ==
    { [status |-> "PENDING", serviceRequestId |-> 1, preferredDate |-> 12,
       checkedIn |-> FALSE],
      [status |-> "PENDING", serviceRequestId |-> 1, preferredDate |-> 12,
       checkedIn |-> TRUE],
      [status |-> "PENDING", serviceRequestId |-> 1, preferredDate |-> 36,
       checkedIn |-> FALSE],
      [status |-> "PENDING", serviceRequestId |-> NULL, preferredDate |-> 12,
       checkedIn |-> FALSE],
      [status |-> "CANCELLED", serviceRequestId |-> 1, preferredDate |-> 12,
       checkedIn |-> FALSE] }

WorkInit ==
    /\ ConnInit
    /\ StoreInit
    /\ NoDispatch
    /\ inspectionReports = <<>>
    /\ \E setup \in WorkSetups :
          /\ bookings = [b \in {1} |->
                           [status |-> setup.status,
                            serviceRequestId |-> setup.serviceRequestId]]
          /\ serviceRequests = [r \in {1} |->
                           [status |-> IF setup.checkedIn THEN "IN_PROGRESS" ELSE "PENDING",
                            preferredDate |-> setup.preferredDate]]
          /\ workLogs = IF setup.checkedIn
                        THEN <<[id |-> 1, staffId |-> 1, bookingId |-> 1,
                                checkIn |-> 0, checkOut |-> NULL, by |-> 0]>>
                        ELSE <<>>

WorkNext ==
    \/ \E c \in Slots, s \in StaffIds, b \in BookingIds :
          createWorkLogWithStatusUpdate(c, s, b)
    \/ \E c \in Slots : createWorkLogFindLog(c)
    \/ \E c \in Slots, b \in BookingIds : checkOutWorkLogByBookingId(c, b)
    \/ \E c \in Slots : txWrite(c)
    \/ \E c \in Slots : txCommit(c)
    \/ \E c \in Slots : txFails(c)
    \/ Tick

SpecWork == WorkInit /\ [][WorkNext]_vars

\* A new connection, no call in progress, the fixed tables
Init == ConnInit /\ StoreInit /\ FixedTables /\ NoDispatch

ReportNext ==
    \/ \E c \in Slots, b \in BookingIds, s \in {1} : createInspectionReport(c, b, s)
    \/ \E c \in Slots, id \in 1..3, dto \in UpdateDtos : updateInspectionReport(c, id, dto)
    \/ \E c \in Slots : updateInspectionReportWrite(c)
    \/ \E c \in Slots : txWrite(c)
    \/ \E c \in Slots : txCommit(c)
    \/ \E c \in Slots : txFails(c)
    \/ Tick

SpecReport == Init /\ [][ReportNext]_vars

ConnNext ==
    \/ \E chunk \in Chunks : Data(chunk)
    \/ \E k \in 1..MaxInFlight, outcome \in Outcomes : StoreDone(k, outcome)
    \/ Timeout

SpecConn == Init /\ [][ConnNext]_vars

\* 'data' events delivered in turn: the next chunk arrives only after the
\* handler of the previous chunk has returned
DataInTurn(chunk) ==
    /\ handlers = <<>>
    /\ Data(chunk)

FramerNext ==
    \/ \E chunk \in Chunks : DataInTurn(chunk)
    \/ \E outcome \in Outcomes : StoreDone(1, outcome)
    \/ Timeout

SpecFramer == Init /\ [][FramerNext]_vars

\* ------------------------------------------- properties of a connection
\* The frames of the stream in arrival order: what the framer yields for
\* the whole stream fed as one chunk to an empty buffer
ArrivalFrames == extractMessages(received).complete

\* The positions in the trace of the events e of frame m
Events(e, m) == {t \in 1..Len(trace) : trace[t] = [e |-> e, m |-> m]}

\* The frames handed to processMessage, in the order of the calls
StartedFrames ==
    LET starts == SelectSeq(trace, LAMBDA x : x.e = "start")
    IN [i \in 1..Len(starts) |-> starts[i].m]

\* C1: on an open connection, for any two complete frames f1 received before
\* f2, every start of the handling of f2 comes after a response to f1 was
\* written, and every response to f2 comes after a response to f1, however
\* the bytes are split into 'data' events and also when a chunk arrives
\* while an earlier frame awaits the store.
C1_ArrivalOrder ==
    ~destroyed =>
        \A i, j \in 1..Len(ArrivalFrames) :
            i < j =>
                /\ \A t \in Events("start", ArrivalFrames[j]) :
                      \E r \in Events("resp", ArrivalFrames[i]) : r < t
                /\ \A t \in Events("resp", ArrivalFrames[j]) :
                      \E r \in Events("resp", ArrivalFrames[i]) : r < t

\* C2: once every handler of an open connection has returned, every complete
\* non-empty frame received has exactly one response envelope on the socket,
\* whatever its outcome.
C2_ExactlyOneResponse ==
    (handlers = <<>> /\ ~destroyed) =>
        /\ \A i \in 1..Len(ArrivalFrames) :
              Cardinality(Events("resp", ArrivalFrames[i])) = 1
        /\ Len(written) = Len(ArrivalFrames)

\* C3: with each chunk fully handled before the next is fed, the frames
\* handed on are, in order, the frames of the whole stream fed as one chunk,
\* whatever the cuts; the residual buffer holds the bytes after the last
\* newline, which are no frame.
C3_FramingRoundTrip ==
    handlers = <<>> =>
        /\ StartedFrames = ArrivalFrames
        /\ buffer = extractMessages(received).remaining
        /\ \A i \in 1..Len(buffer) : buffer[i].v # "NL"
        /\ \A i \in 1..Len(buffer) : buffer[i] = received[Len(received) - Len(buffer) + i]

\* A stream of two frames and an unfinished third; the first frame, three
\* bytes with its newline, is longer than a chunk and so was cut
C3_Witness ==
    /\ handlers = <<>>
    /\ Len(StartedFrames) = 2
    /\ StartedFrames = ArrivalFrames
    /\ Len(StartedFrames[1]) = 2
    /\ buffer # <<>>
    /\ Len(received) = MaxBytes

\* ------------------------------------------------ properties of the store
AppliedBy(k) == {w \in applied : w.by = k}

Did(k, kind) == [by |-> k, kind |-> kind] \in applied

\* C4: in every reachable state at most one InspectionReport exists per
\* bookingId, whatever the sequence and interleaving of the create calls.
C4_OneReportPerBooking ==
    \A i, j \in 1..Len(inspectionReports) :
        inspectionReports[i].bookingId = inspectionReports[j].bookingId => i = j

\* Two create calls for one booking have overlapped; one has committed its
\* report and the other has returned without one
C4_Witness ==
    /\ Len(inspectionReports) = 1
    /\ Did(1, "inspectionReport.create") \/ Did(2, "inspectionReport.create")
    /\ last.op = "createInspectionReport"
    /\ last.bookingId = inspectionReports[1].bookingId
    /\ AppliedBy(last.k) = {}
    /\ last.result.statusCode = 500

\* C5: a create call that creates no report because the booking has one
\* fails with InspectionReportExists and 400 and applies no write; so does
\* the loser of two overlapping create calls for one booking.
C5_DuplicateFailsWithExists ==
    (last.op = "createInspectionReport" /\ last.pre) =>
        /\ last.result = Failure("Error.InspectionReportExists", 400)
        /\ AppliedBy(last.k) = {}

\* C6: in every committed state, the work log of a check-in exists if and
\* only if that check-in's update of the service request has been applied
\* too, the service request of a created work log is IN_PROGRESS, and a
\* check-in that failed has applied nothing.
C6_CheckInAtomic ==
    /\ \A k \in 1..nCalls :
          Did(k, "workLog.create") <=> Did(k, "serviceRequest.update")
    /\ \A i \in 1..Len(workLogs) :
          workLogs[i].by # 0 =>
              /\ Did(workLogs[i].by, "serviceRequest.update")
              /\ serviceRequests[bookings[workLogs[i].bookingId].serviceRequestId].status
                    = "IN_PROGRESS"
    /\ (last.op = "createWorkLogWithStatusUpdate" /\ last.result # OkResult) =>
          AppliedBy(last.k) = {}

\* A check-in has committed both writes, and a later check-in whose
\* transaction failed has left nothing
C6_Witness ==
    /\ \E i \in 1..Len(workLogs) : workLogs[i].by = 1
    /\ Did(1, "serviceRequest.update")
    /\ last.op = "createWorkLogWithStatusUpdate"
    /\ last.k = 2
    /\ last.result = Failure("Error.CreateWorkLogError", 500)

\* C7: in every committed state, a check-out has set the checkOut of the
\* work log if and only if it has set the booking to COMPLETED, a work log
\* has a checkOut exactly when its booking is COMPLETED, and a check-out
\* that failed has applied nothing.
C7_CheckOutAtomic ==
    /\ \A k \in 1..nCalls :
          Did(k, "workLog.update") <=> Did(k, "booking.update")
    /\ \A i \in 1..Len(workLogs) :
          workLogs[i].checkOut # NULL =>
              bookings[workLogs[i].bookingId].status = "COMPLETED"
    /\ \A b \in DOMAIN bookings :
          bookings[b].status = "COMPLETED" =>
              \E i \in logsOf(b) : workLogs[i].checkOut # NULL
    /\ (last.op = "checkOutWorkLogByBookingId" /\ last.result # OkResult) =>
          AppliedBy(last.k) = {}

\* A check-out has committed both writes, and another whose transaction
\* failed has left nothing
C7_Witness ==
    /\ \E k \in 1..nCalls : Did(k, "workLog.update") /\ Did(k, "booking.update")
    /\ bookings[1].status = "COMPLETED"
    /\ last.op = "checkOutWorkLogByBookingId"
    /\ last.result = PrismaError

\* C8: a check-in that begins when the staff member has a committed work log
\* for the booking and no work log of the booking is checked out fails with
\* AlreadyCheckedIn and 400 and applies no write: no work log is created and
\* the service request stays as it is.
C8_SecondCheckInRejected ==
    (last.op = "createWorkLogWithStatusUpdate" /\ last.pre) =>
        /\ last.result = Failure("Error.AlreadyCheckedIn", 400)
        /\ AppliedBy(last.k) = {}

\* The first check-in of the run has committed, the second, for the same
\* pair, has been rejected
C8_Witness ==
    /\ Did(1, "workLog.create")
    /\ last.op = "createWorkLogWithStatusUpdate"
    /\ last.k = 2
    /\ last.pre
    /\ \E i \in 1..Len(workLogs) :
          /\ workLogs[i].by = 1
          /\ workLogs[i].staffId = last.staffId
          /\ workLogs[i].bookingId = last.bookingId
    /\ last.result = Failure("Error.AlreadyCheckedIn", 400)
    /\ Len(workLogs) = 1

\* C9: a check-out that finds a work log which a check-out has closed fails
\* with AlreadyCheckedOut and 400 and applies no write: the checkOut of the
\* work log and the booking stay as they are.
C9_SecondCheckOutRejected ==
    (last.op = "checkOutWorkLogByBookingId" /\ last.pre) =>
        /\ last.result = Failure("Error.AlreadyCheckedOut", 400)
        /\ AppliedBy(last.k) = {}

\* The first check-out of the run has committed, the second has found the
\* same work log and has been rejected
C9_Witness ==
    /\ Did(1, "workLog.update")
    /\ last.op = "checkOutWorkLogByBookingId"
    /\ last.k = 2
    /\ last.pre
    /\ workLogs[last.id].checkOut # NULL
    /\ last.result = Failure("Error.AlreadyCheckedOut", 400)

C11_NoWriteAfterWindow ==
    (last.op = "updateInspectionReport" /\ last.result = OkResult) =>
        last.at - inspectionReports[last.id].createdAt <= 24

\* C12: a check-in that finds the booking COMPLETED or CANCELLED fails with
\* InvalidBookingStatusForCheckIn and 400, and one that finds no booking
\* fails with BookingNotFound and 404; neither applies a write, so no work
\* log is created and the service request keeps its status.
C12_CheckInStatusGuard ==
    last.op = "createWorkLogWithStatusUpdate" =>
        /\ last.status \in {"COMPLETED", "CANCELLED"} =>
              /\ last.result = Failure("Error.InvalidBookingStatusForCheckIn", 400)
              /\ AppliedBy(last.k) = {}
        /\ last.status = "none" =>
              /\ last.result = Failure("Error.BookingNotFound", 404)
              /\ AppliedBy(last.k) = {}

\* A check-out has completed the booking and the check-in after it was
\* refused
C12_Witness ==
    /\ last.op = "createWorkLogWithStatusUpdate"
    /\ last.status = "COMPLETED"
    /\ Did(1, "booking.update")
    /\ last.k = 2
    /\ last.result = Failure("Error.InvalidBookingStatusForCheckIn", 400)
    /\ serviceRequests[1].status = "IN_PROGRESS"

\* C13: a check-out that finds a work log with a checkIn and no checkOut
\* fails with CheckOutTooLate and 400, applying no write, exactly when the
\* time of its check is more than 24 hours after checkIn; at 24 hours or
\* less it is not refused, and it returns success exactly when its writes
\* are applied.
C13_CheckOutWindow ==
    (last.op = "checkOutWorkLogByBookingId" /\ last.id # 0 /\ ~last.pre) =>
        LET age == last.now - workLogs[last.id].checkIn IN
        /\ age > 24 =>
              /\ last.result = Failure("Error.CheckOutTooLate", 400)
              /\ AppliedBy(last.k) = {}
        /\ age <= 24 =>
              /\ last.result \in {OkResult, PrismaError}
              /\ last.result = OkResult <=> Did(last.k, "workLog.update")

\* A check-out exactly 24 hours after checkIn has succeeded
C13_Witness ==
    /\ last.op = "checkOutWorkLogByBookingId"
    /\ last.id # 0
    /\ ~last.pre
    /\ last.now - workLogs[last.id].checkIn = 24
    /\ last.result = OkResult
    /\ workLogs[last.id].checkOut = last.now
    /\ bookings[last.bookingId].status = "COMPLETED"

\* Check-ins of staff 1 to booking 1 at a fixed instant, the preferred date
\* of the service request up to MaxSkewHours before or after it, hour by hour
DaysInit ==
    /\ ConnInit
    /\ NoDispatch
    /\ calls = [c \in Slots |-> IdleCall]
    /\ last = IdleCall
    /\ nCalls = 0
    /\ applied = {}
    /\ inspectionReports = <<>>
    /\ workLogs = <<>>
    /\ clock = MaxSkewHours
    /\ bookings = [b \in {1} |-> [status |-> "CONFIRMED", serviceRequestId |-> 1]]
    /\ \E skew \in (0 - MaxSkewHours)..MaxSkewHours :
          serviceRequests = [r \in {1} |->
                               [status |-> "PENDING", preferredDate |-> clock - skew]]

DaysNext ==
    \/ \E c \in Slots : createWorkLogWithStatusUpdate(c, 1, 1)
    \/ \E c \in Slots : createWorkLogFindLog(c)
    \/ \E c \in Slots : txWrite(c)
    \/ \E c \in Slots : txCommit(c)

SpecDays == DaysInit /\ [][DaysNext]_vars

\* now - preferredDate of the run, in hours
Skew == clock - serviceRequests[1].preferredDate

AbsSkew == IF Skew < 0 THEN 0 - Skew ELSE Skew

\* C14: the first check-in of a run, which meets every other precondition,
\* succeeds exactly when now and preferredDate are at most 24 hours apart,
\* before or after alike; further apart it fails with
\* DateMismatchPreferredDate.
C14_SymmetricDayWindow ==
    (last.op = "createWorkLogWithStatusUpdate" /\ last.k = 1) =>
        /\ last.result = OkResult <=> AbsSkew <= 24
        /\ AbsSkew > 24 =>
              last.result = Failure("Error.DateMismatchPreferredDate", 400)

\* C15: when now and preferredDate are less than 24 hours apart, whichever
\* is the earlier, a check-in does not fail with DateMismatchPreferredDate.
C15_SameDayPasses ==
    (last.op = "createWorkLogWithStatusUpdate" /\ AbsSkew < 24) =>
        last.result # Failure("Error.DateMismatchPreferredDate", 400)

\* A check-in 23 hours before the preferred date has succeeded
C15_Witness ==
    /\ last.op = "createWorkLogWithStatusUpdate"
    /\ Skew = 0 - 23
    /\ last.result = OkResult
    /\ Len(workLogs) = 1

\* ------------------------------------------------------- oversize frames
\* The frames answered on the socket, in the order of the writes: the k-th
\* is the frame of written[k]
AnsweredFrames ==
    LET resps == SelectSeq(trace, LAMBDA x : x.e = "resp")
    IN [i \in 1..Len(resps) |-> resps[i].m]

Oversize(message) == Len(message) > MAX_PAYLOAD_SIZE

AdmissionNext ==
    \/ \E s \in SocketIds : Connect(s)
    \/ \E s \in SocketIds : SocketData(s)
    \/ \E s \in SocketIds : SocketTimeout(s)
    \/ \E s \in SocketIds : SocketClose(s)

SpecAdmission == Init /\ [][AdmissionNext]_vars

\* The sockets whose 'connection' event found the manager at its maximum
ArrivedAtMax == {s \in SocketIds : sockets[s].found = MAX_CONNECTIONS}

\* C16: activeConnections, which is the size of the tracked set, never
\* exceeds MAX_CONNECTIONS; a socket whose 'connection' event finds
\* activeConnections at the maximum is destroyed there, was never added to
\* the tracked set, is not counted in totalConnections, and no chunk sent
\* to it is handled.
C16_AdmissionControl ==
    /\ activeConnections <= MAX_CONNECTIONS
    /\ activeConnections = Cardinality(connections)
    /\ \A s \in ArrivedAtMax :
          /\ sockets[s].state \in {"destroyed", "closed"}
          /\ ~sockets[s].added
          /\ s \notin connections
          /\ sockets[s].handled = 0
    /\ totalConnections =
          Cardinality({s \in SocketIds : sockets[s].state # "new"} \ ArrivedAtMax)

\* The third socket arrived at the maximum and was refused, a chunk sent to
\* it went unhandled; after a tracked socket closed, the fourth was let in
C16_Witness ==
    /\ sockets[3].found = MAX_CONNECTIONS
    /\ sockets[3].sent = 1
    /\ sockets[3].handled = 0
    /\ sockets[4].state = "open"
    /\ sockets[4].handled = 1
    /\ totalConnections = 3
    /\ activeConnections = MAX_CONNECTIONS

\* ------------------------------------------------------- the dispatcher
\* One payload, drawn from Requests, is handed to handleTCPRequest
DispatchInit ==
    /\ ConnInit
    /\ StoreInit
    /\ FixedTables
    /\ request \in Requests
    /\ reply = NoReply

DispatchNext == Dispatch

SpecDispatch == DispatchInit /\ [][DispatchNext]_vars

IsPositiveInteger(value) == value.t = "number" /\ value.v > 0 /\ value.v % 10 = 0

\* The *Id fields each operation of the catalog takes from data
IdFields(type) ==
    CASE type = "STAFF_GET_BOOKING_DETAIL" -> {"bookingId"}
      [] type = "STAFF_CHECK_OUT" -> {"bookingId"}
      [] type = "STAFF_GET_INSPECTION_DETAIL" -> {"inspectionId"}
      [] type = "UPDATE_INSPECTION_REPORT" -> {"inspectionId"}
      [] type \in {"STAFF_CREATE_INSPECTION_REPORT", "STAFF_CREATE_WORK_LOG"} ->
            {"staffId", "bookingId"}
      [] OTHER -> {"staffId"}

\* C18: a payload whose type is none of the names of the registry, the
\* payload without a type and the payload null included, is answered with
\* the AppError Error.UnknownRequestType of status 400; no method of
\* StaffService is called and the repository is not reached.
C18_ClosedRegistry ==
    (reply.done /\ (request.json = "null" \/ request.type \notin Registry)) =>
        /\ reply.thrown = AppError("Error.UnknownRequestType",
                                   "Unknown request type", 400)
        /\ reply.service = "none"
        /\ ~reply.store

\* C19: a request of a known type, with a data object, one of whose *Id
\* fields is not a positive integer is answered with an AppError of status
\* 400 before any method of StaffService is called.
C19_IdsValidated ==
    (/\ reply.done
     /\ request.json = "object"
     /\ request.type \in Registry
     /\ request.data = "object"
     /\ \E f \in IdFields(request.type) : ~IsPositiveInteger(request[f])) =>
        /\ reply.thrown.name = "AppError"
        /\ reply.thrown.statusCode = 400
        /\ reply.service = "none"
        /\ ~reply.store

\* The dataInspection that is no update: absent, null, no object, an object
\* without fields or with none that holds a value
NoUpdate(dataInspection) ==
    dataInspection.t # "object" \/ ~hasValidUpdates(dataInspection.dto)

\* C20: an UPDATE_INSPECTION_REPORT whose dataInspection is no update is
\* answered with an AppError of a status from 400 to 499, and the
\* repository is not reached.
C20_UpdatePayloadValidated ==
    (/\ reply.done
     /\ request.json = "object"
     /\ request.type = "UPDATE_INSPECTION_REPORT"
     /\ request.data = "object"
     /\ NoUpdate(request.dataInspection)) =>
        /\ reply.thrown.name = "AppError"
        /\ reply.thrown.statusCode \in 400..499
        /\ ~reply.store

\* C21: a request of a known type that lacks one of its *Id fields, or has
\* no data at all, is answered with an AppError of status 400 or 422, not
\* with the AppError Error.Unexpected of status 500.
C21_MissingIdIsValidationError ==
    (/\ reply.done
     /\ request.json = "object"
     /\ request.type \in Registry
     /\ \/ request.data = "undefined"
        \/ \E f \in IdFields(request.type) : request[f] = Undef) =>
        /\ reply.thrown.name = "AppError"
        /\ reply.thrown.statusCode \in {400, 422}
        /\ reply.thrown.message # "Error.Unexpected"

ShutdownNext ==
    \/ AdmissionNext
    \/ Shutdown

SpecShutdown == Init /\ [][ShutdownNext]_vars

\* C23: the step that sets isShuttingDown leaves every socket that was
\* tracked destroyed, whether or not it has handled a chunk, and the tracked
\* set empty; from then on isShuttingDown stays set, the tracked set stays
\* empty, no socket is open, and no socket is added or counted.
C23_Shutdown ==
    /\ [][(~isShuttingDown /\ isShuttingDown') =>
             /\ connections' = {}
             /\ \A s \in connections : sockets'[s].state \in {"destroyed", "closed"}]_vars
    /\ [](isShuttingDown =>
             /\ connections = {}
             /\ \A s \in SocketIds : sockets[s].state # "open")
    /\ [][isShuttingDown =>
             /\ isShuttingDown'
             /\ totalConnections' = totalConnections
             /\ \A s \in SocketIds : sockets'[s].added = sockets[s].added]_vars

\* Shutdown has found two tracked sockets open, one of which had handled a
\* chunk, and has destroyed both; their 'close' events are yet to come
C23_Witness ==
    /\ isShuttingDown
    /\ connections = {}
    /\ activeConnections = 2
    /\ sockets[1].added /\ sockets[1].state = "destroyed" /\ sockets[1].handled = 1
    /\ sockets[2].added /\ sockets[2].state = "destroyed" /\ sockets[2].handled = 0
    /\ sockets[3].state = "new"

\* C24: the store refuses no insert of a WorkLog: a check-in that found no
\* work log of its (staffId, bookingId) and has its insert still to execute
\* meets no unique constraint, also when a work log of the same pair has
\* been committed in the meantime; so two check-ins that both pass the
\* check before either commits both succeed.
C24_NoConstraintOnWorkLog ==
    /\ \A c \in Slots : \A w \in calls[c].todo :
          w.kind = "workLog.create" => ~UniqueViolation(DB, w)
    /\ \A i, j \in 1..Len(workLogs) :
          (/\ i # j
           /\ workLogs[i].staffId = workLogs[j].staffId
           /\ workLogs[i].bookingId = workLogs[j].bookingId
           /\ workLogs[i].by # 0 /\ workLogs[j].by # 0) =>
              /\ Did(workLogs[i].by, "serviceRequest.update")
              /\ Did(workLogs[j].by, "serviceRequest.update")

\* Two check-ins of staff 1 to booking 1 have both succeeded: the booking
\* has two work logs of the same staff member
C24_Witness ==
    /\ Len(workLogs) = 2
    /\ workLogs[1].staffId = workLogs[2].staffId
    /\ workLogs[1].bookingId = workLogs[2].bookingId
    /\ workLogs[1].by = 1 /\ workLogs[2].by = 2
    /\ last.op = "createWorkLogWithStatusUpdate"
    /\ last.result = OkResult
    /\ nCalls = 2

\* C25: a call on inspection reports that meets a business-rule violation
\* ends with the code of that violation and status 400 or 404: a create for
\* a booking that has a report with Error.InspectionReportExists (400), an
\* update of a report older than 24 hours with Error.ReportUpdateTooLate
\* (400), an update of a report that does not exist with NotFound (404).
C25_StableBusinessCodes ==
    /\ (last.op = "createInspectionReport" /\ last.pre) =>
          /\ last.result.statusCode \in {400, 404}
          /\ last.result.code = "Error.InspectionReportExists"
    /\ (last.op = "updateInspectionReport" /\ last.pre
            /\ last.hoursPassed > MAX_UPDATE_HOURS) =>
          /\ last.result.statusCode \in {400, 404}
          /\ last.result.code = "Error.ReportUpdateTooLate"
    /\ (last.op = "updateInspectionReport" /\ ~last.pre
            /\ last.result # Failure("Error.NoValidUpdateData", 400)) =>
          /\ last.result.statusCode \in {400, 404}
          /\ last.result.code = "NotFound"

\* ------------------------------------------------ results and envelopes
\* The four writing operations of staff 1 on booking 1 and its report, in
\* any interleaving
OpsNext ==
    \/ \E c \in Slots : createWorkLogWithStatusUpdate(c, 1, 1)
    \/ \E c \in Slots : createWorkLogFindLog(c)
    \/ \E c \in Slots : checkOutWorkLogByBookingId(c, 1)
    \/ \E c \in Slots : createInspectionReport(c, 1, 1)
    \/ \E c \in Slots, dto \in {NoDto, Dto({"images"}, "", <<"u2">>, 0)} :
          updateInspectionReport(c, 1, dto)
    \/ \E c \in Slots : updateInspectionReportWrite(c)
    \/ \E c \in Slots : txWrite(c)
    \/ \E c \in Slots : txCommit(c)
    \/ \E c \in Slots : txFails(c)
    \/ Tick

SpecOps == Init /\ [][OpsNext]_vars

\* How the call's end reaches handleTCPRequest: a return, an AppError, or
\* an error that is none
outcomeOf(result) ==
    IF result = OkResult THEN "ok"
    ELSE IF result = PrismaError THEN "unexpected"
    ELSE "business"

\* The envelope processMessage writes for a call that ended with result
envelopeOf(result) ==
    LET r == handleTCPRequestAsync(outcomeOf(result))
    IN IF r.ok THEN SuccessResponse ELSE handleSocketError(r.error)

\* C26: the envelope of a call is the success envelope exactly when the
\* call returned without throwing, and exactly then the call has committed
\* its writes: a call that applied nothing is answered with an error
\* envelope, a call that committed with the success envelope.
C26_SuccessIffCommitted ==
    last.op # "idle" =>
        /\ envelopeOf(last.result) = SuccessResponse <=> last.result = OkResult
        /\ envelopeOf(last.result).success <=> AppliedBy(last.k) # {}
        /\ ~envelopeOf(last.result).success =>
              envelopeOf(last.result).statusCode \in 400..599

\* The second call of a run, a check-out, has committed its two writes and
\* is answered with the success envelope
C26_Witness ==
    /\ last.op = "checkOutWorkLogByBookingId"
    /\ envelopeOf(last.result) = SuccessResponse
    /\ Did(last.k, "workLog.update")
    /\ Did(last.k, "booking.update")
    /\ last.k = 2
    /\ AppliedBy(1) # {}

\* ------------------------------------------------- overlapping chunks
\* C27: every complete frame of the stream that parses is handed to the
\* request handler at most once at any time, and exactly once by the time
\* every handler of the open connection has returned, also when a chunk
\* arrives while the handler of an earlier frame awaits the store.
C27_NoFrameDispatchedTwice ==
    \A i \in 1..Len(ArrivalFrames) :
        LET f == ArrivalFrames[i] IN
        (JSONparse(f).ok /\ ~Oversize(f)) =>
            /\ Cardinality(Events("start", f)) <= 1
            /\ (handlers = <<>> /\ ~destroyed) => Cardinality(Events("start", f)) = 1

\* C28: once every handler has returned, the residual buffer holds exactly
\* the bytes received after the last newline, whatever the interleaving of
\* 'data' events and store calls.
C28_NoByteLost ==
    handlers = <<>> =>
        /\ Len(buffer) = Len(extractMessages(received).remaining)
        /\ \A i \in 1..Len(buffer) :
              buffer[i] = received[Len(received) - Len(buffer) + i]

\* ------------------------------------------- a booking with two work logs
\* Staff 1 and staff 2 have both checked in to booking 1 at time 0 and
\* staff 1 has written its inspection report; either none has checked out,
\* or staff 1 has, which completed the booking. The booking may have been
\* cancelled since, which no operation of this service does.
CheckOutInit ==
    /\ ConnInit
    /\ StoreInit
    /\ NoDispatch
    /\ inspectionReports = <<[id |-> 1, bookingId |-> 1, staffId |-> 1, note |-> "",
                              images |-> <<"u1">>, estimatedTime |-> 0, createdAt |-> 0]>>
    /\ serviceRequests = [r \in {1} |-> [status |-> "IN_PROGRESS", preferredDate |-> 0]]
    /\ \E closed \in BOOLEAN, cancelled \in BOOLEAN :
          /\ bookings = [b \in {1} |->
                           [status |-> IF cancelled THEN "CANCELLED"
                                       ELSE IF closed THEN "COMPLETED" ELSE "CONFIRMED",
                            serviceRequestId |-> 1]]
          /\ workLogs = <<[id |-> 1, staffId |-> 1, bookingId |-> 1, checkIn |-> 0,
                           checkOut |-> IF closed THEN 0 ELSE NULL, by |-> 0],
                          [id |-> 2, staffId |-> 2, bookingId |-> 1, checkIn |-> 0,
                           checkOut |-> NULL, by |-> 0]>>

CheckOutNext ==
    \/ \E c \in Slots : checkOutWorkLogByBookingId(c, 1)
    \/ \E c \in Slots : txWrite(c)
    \/ \E c \in Slots : txCommit(c)
    \/ \E c \in Slots : txFails(c)
    \/ Tick

SpecCheckOut == CheckOutInit /\ [][CheckOutNext]_vars

\* The work logs of the booking that are still open
OpenLogs(bookingId) == {i \in logsOf(bookingId) : workLogs[i].checkOut = NULL}

\* C29: a check-out that returns while a work log of its booking is open
\* and was checked in at most 24 hours before the call's now has succeeded,
\* unless its transaction failed; and no check-out answers AlreadyCheckedOut
\* while a work log of its booking is open.
C29_CheckOutFindsOpenLog ==
    last.op = "checkOutWorkLogByBookingId" =>
        /\ (\E i \in OpenLogs(last.bookingId) :
               last.now - workLogs[i].checkIn <= MAX_CHECKOUT_HOURS) =>
              last.result \in {OkResult, PrismaError}
        /\ OpenLogs(last.bookingId) # {} =>
              last.result # Failure("Error.AlreadyCheckedOut", 400)

\* C30: the checkIn a successful check-in has stored is the instant its
\* date-window check used, the checkOut a successful check-out has stored is
\* the instant its 24-hour check used, and every work log with a checkOut
\* has a checkIn at most 24 hours and not less than 0 hours before it.
C30_OneInstantPerOperation ==
    /\ (last.op = "createWorkLogWithStatusUpdate" /\ last.result = OkResult) =>
          /\ calculateDaysDifference(last.now,
                 serviceRequests[bookings[last.bookingId].serviceRequestId].preferredDate)
                     <= MAX_DATE_DIFF_DAYS
          /\ \E i \in DOMAIN workLogs :
                workLogs[i].by = last.k /\ workLogs[i].checkIn = last.now
    /\ (last.op = "checkOutWorkLogByBookingId" /\ last.result = OkResult) =>
          /\ workLogs[last.id].checkOut = last.now
          /\ last.hoursPassed = last.now - workLogs[last.id].checkIn
          /\ last.hoursPassed <= MAX_CHECKOUT_HOURS
    /\ \A i \in DOMAIN workLogs :
          workLogs[i].checkOut # NULL =>
             /\ workLogs[i].checkIn # NULL
             /\ 0 <= workLogs[i].checkOut - workLogs[i].checkIn
             /\ workLogs[i].checkOut - workLogs[i].checkIn <= MAX_CHECKOUT_HOURS

\* The first call of a run has checked in, and the second call has closed
\* that work log 12 hours later with its own instant
C30_Witness ==
    /\ last.op = "checkOutWorkLogByBookingId"
    /\ last.k = 2
    /\ last.result = OkResult
    /\ workLogs[last.id].by = 1
    /\ workLogs[last.id].checkOut = last.now
    /\ workLogs[last.id].checkOut - workLogs[last.id].checkIn = 12

\* The sockets that were admitted and have not closed
Held == {s \in SocketIds : sockets[s].added /\ sockets[s].state \in {"open", "destroyed"}}

\* C31: the tracked set holds exactly the admitted sockets that have not
\* closed and activeConnections is its size, never negative; an open socket
\* leaves that state only by being destroyed; the step in which an admitted
\* socket closes removes it from the tracked set and decrements
\* activeConnections by one; a closed socket stays closed, and
\* activeConnections decreases in no other step.
C31_ReleasedOnce ==
    /\ [](/\ activeConnections >= 0
          /\ connections = Held
          /\ activeConnections = Cardinality(Held))
    /\ [][\A s \in SocketIds :
             /\ sockets[s].state = "open" => sockets'[s].state \in {"open", "destroyed"}
             /\ sockets[s].state = "closed" => sockets'[s].state = "closed"
             /\ (sockets[s].added /\ sockets[s].state # "closed"
                   /\ sockets'[s].state = "closed") =>
                   /\ sockets[s].state = "destroyed"
                   /\ s \in connections
                   /\ s \notin connections'
                   /\ activeConnections' = activeConnections - 1]_vars
    /\ [][activeConnections' < activeConnections =>
             \E s \in SocketIds :
                /\ sockets[s].added
                /\ sockets[s].state = "destroyed"
                /\ sockets'[s].state = "closed"]_vars

\* The first socket was admitted, timed out and closed; the second is still
\* open, and a refused one has closed without being counted
C31_Witness ==
    /\ sockets[1].added /\ sockets[1].state = "closed"
    /\ sockets[2].added /\ sockets[2].state = "open"
    /\ sockets[3].added /\ sockets[3].state = "destroyed"
    /\ ~sockets[4].added /\ sockets[4].state = "closed"
    /\ activeConnections = 2
    /\ totalConnections = 3

\* The step in which the call of slot c returns with success
ReturnsOk(c, op) ==
    /\ calls[c].op = op
    /\ calls'[c].pc = "idle"
    /\ last'.k = calls[c].k
    /\ last'.result = OkResult

\* A step of the call `op` in slot c: it begins, goes on or returns
StepOf(c, op) ==
    /\ calls'[c] # calls[c]
    /\ calls[c].op = op \/ calls'[c].op = op

C33_BookingDetailReachesStore ==
    (/\ reply.done
     /\ request.type = "STAFF_GET_BOOKING_DETAIL"
     /\ request.data = "object"
     /\ IsPositiveInteger(request.bookingId)
     /\ IsPositiveInteger(request.staffId)) =>
        /\ reply.thrown = NoThrow
        /\ reply.service = "getBookingDetail"
        /\ reply.store

\* C34: a booking whose status is COMPLETED keeps that status in every
\* step, and no step adds a work log for it.
C34_CompletedIsFinal ==
    [][\A b \in DOMAIN bookings :
          bookings[b].status = "COMPLETED" =>
             /\ bookings'[b].status = "COMPLETED"
             /\ \A i \in 1..Len(workLogs') :
                   workLogs'[i].bookingId = b => i <= Len(workLogs)]_vars

\* C35: every work log that has a checkOut belongs to a booking whose status
\* is COMPLETED, and the service request of every booking that has a work
\* log has the status IN_PROGRESS.
C35_WorkflowConsistent ==
    /\ \A i \in 1..Len(workLogs) :
          workLogs[i].checkOut # NULL =>
              bookings[workLogs[i].bookingId].status = "COMPLETED"
    /\ \A b \in DOMAIN bookings :
          (logsOf(b) # {} /\ bookings[b].serviceRequestId # NULL) =>
              serviceRequests[bookings[b].serviceRequestId].status = "IN_PROGRESS"

\* The work log of booking 1 was checked out: the booking is COMPLETED and
\* its service request IN_PROGRESS, while booking 2 is as it was
C35_Witness ==
    /\ Len(workLogs) = 1
    /\ workLogs[1].bookingId = 1
    /\ workLogs[1].checkOut # NULL
    /\ bookings[1].status = "COMPLETED"
    /\ serviceRequests[1].status = "IN_PROGRESS"
    /\ bookings[2].status = "CONFIRMED"
    /\ serviceRequests[2].status = "PENDING"
    /\ last.op = "checkOutWorkLogByBookingId"

\* C36: a check-in to a booking that has no service request never succeeds
\* and applies no write; when the booking is neither COMPLETED nor CANCELLED
\* and the staff member has no work log for it, the call fails with
\* MissingServiceRequestId and 500, otherwise with the error of the earlier
\* check; such a booking never has a work log.
C36_NoServiceRequestNoCheckIn ==
    /\ (/\ last.op = "createWorkLogWithStatusUpdate"
        /\ last.bookingId \in DOMAIN bookings
        /\ bookings[last.bookingId].serviceRequestId = NULL) =>
           /\ AppliedBy(last.k) = {}
           /\ last.result =
                 IF invalidStatusForCheckIn(last.status)
                 THEN Failure("Error.InvalidBookingStatusForCheckIn", 400)
                 ELSE IF existingLog(last.bookingId, last.staffId)
                 THEN Failure("Error.AlreadyCheckedIn", 400)
                 ELSE Failure("Error.MissingServiceRequestId", 500)
    /\ \A b \in DOMAIN bookings :
          bookings[b].serviceRequestId = NULL => logsOf(b) = {}

\* The second call of a run, a check-in at hour 36 to the pending booking
\* that has no service request, has failed; there is no work log
C36_Witness ==
    /\ last.op = "createWorkLogWithStatusUpdate"
    /\ last.k = 2
    /\ last.bookingId \in DOMAIN bookings
    /\ bookings[last.bookingId].serviceRequestId = NULL
    /\ last.status = "PENDING"
    /\ last.result = Failure("Error.MissingServiceRequestId", 500)
    /\ clock = 36
    /\ workLogs = <<>>

\* C37: a check-out that reads an open work log checked in at most 24 hours
\* before is not refused whatever the status of the booking, CANCELLED
\* included, and when it returns with success the booking is COMPLETED; no
\* step of a check-out changes a service request or an inspection report.
C37_CheckOutIgnoresStatus ==
    /\ [](\A s \in {"CONFIRMED", "CANCELLED", "COMPLETED"} :
            (/\ last.op = "checkOutWorkLogByBookingId"
             /\ last.status = s
             /\ last.id # 0
             /\ ~last.pre
             /\ last.now - workLogs[last.id].checkIn <= MAX_CHECKOUT_HOURS) =>
                /\ last.result \in {OkResult, PrismaError}
                /\ last.result = OkResult =>
                      /\ bookings[last.bookingId].status = "COMPLETED"
                      /\ workLogs[last.id].checkOut # NULL)
    /\ [][\A c \in Slots :
             StepOf(c, "checkOutWorkLogByBookingId") =>
                /\ serviceRequests' = serviceRequests
                /\ inspectionReports' = inspectionReports]_vars

\* The booking was CANCELLED when the check-out began, 12 hours after the
\* check-in; the check-out has succeeded and the booking is COMPLETED
C37_Witness ==
    /\ last.op = "checkOutWorkLogByBookingId"
    /\ last.status = "CANCELLED"
    /\ last.result = OkResult
    /\ last.now = 12
    /\ workLogs[last.id].checkOut = 12
    /\ bookings[1].status = "COMPLETED"
    /\ serviceRequests[1].status = "IN_PROGRESS"
    /\ Len(inspectionReports) = 1

\* C38: an update that is given no valid field fails with NoValidUpdateData
\* and 400, also when the report does not exist or is older than 24 hours,
\* so that a call that fails with NotFound or ReportUpdateTooLate, or goes
\* on to its write, was given a valid field; the fields handed to the
\* repository are non-empty and the note is trimmed; and the step in which
\* an update returns with success changes, in its report alone, exactly the
\* fields it was given: bookingId, staffId and createdAt stay as they were.
C38_UpdateFrame ==
    /\ [](last.op = "updateInspectionReport" =>
            /\ last.result = Failure("Error.NoValidUpdateData", 400) =>
                  last.data.has = {}
            /\ last.result.code \in {"NotFound", "Error.ReportUpdateTooLate"} =>
                  last.data.has # {})
    /\ [](\A c \in Slots :
            calls[c].op = "updateInspectionReport" =>
               LET data == calls[c].data IN
               /\ data.has # {}
               /\ data.has \subseteq {"note", "images", "estimatedTime"}
               /\ "note" \in data.has => (data.note # "" /\ trimNote(data.note) = data.note)
               /\ "images" \in data.has => Len(data.images) > 0
               /\ "estimatedTime" \in data.has => data.estimatedTime # 0)
    /\ [][\A c \in Slots :
             ReturnsOk(c, "updateInspectionReport") =>
                LET data == calls[c].data
                    id == calls[c].id
                IN /\ Len(inspectionReports') = Len(inspectionReports)
                   /\ \A i \in 1..Len(inspectionReports) :
                         LET old == inspectionReports[i]
                             new == inspectionReports'[i]
                         IN IF i # id THEN new = old
                            ELSE /\ new.id = old.id
                                 /\ new.bookingId = old.bookingId
                                 /\ new.staffId = old.staffId
                                 /\ new.createdAt = old.createdAt
                                 /\ new.note =
                                       IF "note" \in data.has THEN data.note ELSE old.note
                                 /\ new.images =
                                       IF "images" \in data.has THEN data.images
                                       ELSE old.images
                                 /\ new.estimatedTime =
                                       IF "estimatedTime" \in data.has
                                       THEN data.estimatedTime ELSE old.estimatedTime]_vars

\* An update with the note " a" alone has succeeded 12 hours after the
\* report was created: the note is "a", the images are those of the creation
C38_Witness ==
    /\ last.op = "updateInspectionReport"
    /\ last.result = OkResult
    /\ last.id = 1
    /\ Len(inspectionReports) = 1
    /\ inspectionReports[1].note = "a"
    /\ inspectionReports[1].images = <<"u1">>
    /\ inspectionReports[1].createdAt = 0
    /\ last.at = 12

\* ------------------------------------ the counters of ConnectionManager
\* Sockets connect, time out and close up to a shutdown, while one
\* connection receives whole frames (a request that reaches the store, one
\* that fails validation) and the pieces of frames that are no JSON or are
\* too long.
MetricsChunks == {<<"q", "NL">>, <<"v", "NL">>, <<"n", "n">>, <<"NL">>}

\* One socket more than the manager admits
MetricsSockets == 1..(MAX_CONNECTIONS + 1)

MetricsNext ==
    \/ \E s \in MetricsSockets : Connect(s)
    \/ \E s \in MetricsSockets : SocketTimeout(s)
    \/ \E s \in MetricsSockets : SocketClose(s)
    \/ Shutdown
    \/ \E chunk \in MetricsChunks : DataInTurn(chunk)
    \/ \E outcome \in Outcomes : StoreDone(1, outcome)
    \/ Timeout

SpecMetrics == Init /\ [][MetricsNext]_vars

\* The error envelopes among the responses ws
ErrorEnvelopes(ws) == Cardinality({k \in 1..Len(ws) : ~ws[k].success})

\* C39: until shutdown activeConnections is the size of the tracked set;
\* it lies between 0 and totalConnections; totalConnections and
\* totalRequests never decrease; totalRequests is the number of frames
\* handed to processMessage that were within the size limit and parsed as
\* JSON; and every step adds to totalErrors the number of error envelopes it
\* writes, or more than that only once the socket is destroyed, when no
\* envelope is written.
C39_MetricsConsistent ==
    /\ [](~isShuttingDown => activeConnections = Cardinality(connections))
    /\ [](0 <= activeConnections /\ activeConnections <= totalConnections)
    /\ [][/\ totalConnections' >= totalConnections
          /\ totalRequests' >= totalRequests]_vars
    /\ [](totalRequests =
             Cardinality({i \in 1..Len(StartedFrames) :
                             /\ byteLength(StartedFrames[i]) <= MAX_PAYLOAD_SIZE
                             /\ JSONparse(StartedFrames[i]).ok}))
    /\ [][LET envelopes == ErrorEnvelopes(written') - ErrorEnvelopes(written)
              errors == totalErrors' - totalErrors
          IN /\ envelopes >= 0
             /\ envelopes <= errors
             /\ ~destroyed => envelopes = errors]_vars

\* Three sockets were admitted and two of them have closed; the connection
\* has answered a request that failed validation and a text that is no
\* JSON with an error envelope each, and only the first was counted as a
\* request
C39_Witness ==
    /\ ~isShuttingDown
    /\ totalConnections = 3
    /\ activeConnections = 1
    /\ Cardinality(connections) = 1
    /\ totalRequests = 1
    /\ totalErrors = 2
    /\ Len(written) = 2
    /\ ErrorEnvelopes(written) = 2

\* ------------------------------------------------- the list of bookings
\* new Set(Object.values(BookingStatus))
VALID_BOOKING_STATUSES == {"PENDING", "CONFIRMED", "COMPLETED", "CANCELLED"}

\* StaffRepository.getBookingsList: the rows its `where` selects, before
\* paging; the status is part of the filter only when it is given
whereBookings(staffId, status) ==
    {b \in DOMAIN bookings :
        /\ bookings[b].staffId = staffId
        /\ status # "undefined" => bookings[b].status = status}

\* What the list call came to: what was thrown, whether the repository was
\* queried, and the bookings selected
Listed(thrown, queried, rows) ==
    [done |-> TRUE, thrown |-> thrown, queried |-> queried, rows |-> rows]

\* StaffService.getBookingsList: `bookingStatus` is declared and never
\* assigned, so the repository is called with undefined
getBookingsList(staffId, status) ==
    LET bookingStatus == "undefined"
    IN IF status \notin {"undefined", ""} /\ status \notin VALID_BOOKING_STATUSES
       THEN Listed(AppError("Invalid booking status", "Error.InvalidBookingStatus", 400),
                   FALSE, {})
       ELSE Listed(NoThrow, TRUE, whereBookings(staffId, bookingStatus))

\* Two bookings, each of staff 1 or staff 2 and in any status, and one list
\* request: a staff member and a status that is absent, empty, valid or not
ListInit ==
    /\ ConnInit
    /\ StoreInit
    /\ serviceRequests = <<>>
    /\ workLogs = <<>>
    /\ inspectionReports = <<>>
    /\ bookings \in [BookingIds ->
                       [status : VALID_BOOKING_STATUSES, serviceRequestId : {NULL},
                        staffId : StaffIds]]
    /\ request \in [staffId : StaffIds,
                    status : {"undefined", "", "CONFIRMED", "COMPLETED", "DONE"}]
    /\ reply = [done |-> FALSE, thrown |-> NoThrow, queried |-> FALSE, rows |-> {}]

\* STAFF_GET_BOOKINGS with a valid staffId: StaffService.getBookingsList
ListBookings ==
    /\ ~reply.done
    /\ reply' = getBookingsList(request.staffId, request.status)
    /\ UNCHANGED <<request, connVars, storeVars, mgrVars>>

ListNext == ListBookings

SpecList == ListInit /\ [][ListNext]_vars

\* C40: a list request with a valid status selects only bookings of its
\* staff member that have that status; one with a status outside the
\* enumeration fails with InvalidBookingStatus and 400 and the repository
\* is not queried.
C40_ListFiltersByStatus ==
    reply.done =>
        /\ request.status \in VALID_BOOKING_STATUSES =>
              /\ reply.thrown = NoThrow
              /\ \A b \in reply.rows :
                    /\ bookings[b].staffId = request.staffId
                    /\ bookings[b].status = request.status
        /\ request.status \notin VALID_BOOKING_STATUSES \cup {"undefined"} =>
              /\ reply.thrown.code = "Error.InvalidBookingStatus"
              /\ reply.thrown.statusCode = 400
              /\ ~reply.queried

====
